---- MODULE Spec2Model ----
(***************************************************************************)
(* Payment-to-provisioning pipeline of the WhitePrism VPN bot (src/bot.py).*)
(* Time is in seconds.  A handler invocation (Telegram successful_payment  *)
(* or CryptoBot /crypto_webhook) is a process that walks through the       *)
(* statements of its handler; a step ends at each committed store write   *)
(* and each remote exchange.  Flask and telebot run handlers in threads,   *)
(* so invocations interleave.                                              *)
(***************************************************************************)
EXTENDS Integers, Sequences, FiniteSets, TLC

\* ---------------------------------------------------------------- bounds
MaxDeliveries == 2      \* payment events delivered in one behaviour
MaxTicks      == 1      \* clock advances in one behaviour
MaxAdminOps   == 1      \* /admin_add_balance commands in one behaviour
MaxCrashes    == 1      \* handler invocations killed mid-way
MaxEnvEvents  == 2      \* clock advances, admin commands and kills together
MaxCalls      == 2      \* direct calls of the provisioning functions
MaxCallTicks  == 1      \* clock advances while provisioning functions are called
MaxStars      == 1000   \* largest Stars amount a payment carries

\* ------------------------------------------------------ program constants
STAR_PRICE_RUB_X100 == 165
USDT_PRICE_RUB == 90
DAY_SECONDS == 86400
TOKEN_TTL == 3600

TARIFFS ==
    [month   |-> [price |-> 199,  days |-> 30],
     quarter |-> [price |-> 499,  days |-> 90],
     year    |-> [price |-> 1499, days |-> 365]]

\* ------------------------------------------------------------ input sets
Users    == {1, 2}
\* users who pay in the chat, create invoices, or get admin adjustments
Payers   == {1}
\* worker threads that run handler invocations
Handlers == {1, 2}
Digits   == <<"1", "2">>
UserToken(u) == Digits[u]

\* idempotency keys: Telegram charge ids and CryptoBot invoice ids
ChargeIds  == {<<"charge", 1>>}
InvoiceIds == {<<"invoice", 1>>}
NoKey      == <<"none", 0>>

\* tariff keys carried by events: one real key and one the table lacks
EventTariffs == {"month", "bogus"}
\* stars amounts a pay_stars_ callback can carry (121 is the quoted month price)
StarsAmounts == {121}
\* clock steps: 25 days later
TickSteps    == {25 * DAY_SECONDS}
\* integer amounts an administrator can type
AdminAmounts == {100, -100}

\* A payload string is a sequence of tokens; "_" is the separator character
\* and every other token is a run of characters without "_".
MkPayload(prefix, tk, uid) == <<prefix, "_", tk, "_", uid>>
StarsPayloads(u)  == {MkPayload("stars", tk, UserToken(u)) : tk \in EventTariffs}
CryptoPayloads ==
    {MkPayload("crypto", tk, UserToken(u)) : tk \in EventTariffs, u \in Payers}
      \cup {MkPayload("crypto", "month", "2"),
            <<"crypto", "_", "month">>,
            MkPayload("stars", "month", "1"),
            MkPayload("crypto", "month", "abc")}

\* -------------------------------------------------------- pure functions
\* str.split(sep)
RECURSIVE Split(_, _)
Split(s, sep) ==
    IF s = <<>> THEN << <<>> >>
    ELSE LET rest == Split(Tail(s), sep)
         IN  IF Head(s) = sep
             THEN << <<>> >> \o rest
             ELSE << (<<Head(s)>> \o rest[1]) >> \o Tail(rest)

\* str.startswith(prefix + '_')
StartsWith(s, prefix) == Len(s) >= 2 /\ s[1] = prefix /\ s[2] = "_"

\* TARIFFS.get(key) is not None
TariffOf(part) == IF Len(part) = 1 /\ part[1] \in DOMAIN TARIFFS THEN part[1] ELSE ""

\* int(text): defined for digit strings only, ValueError otherwise
IsInt(part) == Len(part) = 1 /\ \E u \in Users : UserToken(u) = part[1]
IntOf(part) == CHOOSE u \in Users : UserToken(u) = part[1]

\* int(amount_stars * STAR_PRICE_RUB)
RubOfStars(stars) == (stars * STAR_PRICE_RUB_X100) \div 100

\* ---------------------------------------------------------------- state
VARIABLES
    now,                \* wall clock, seconds
    ticks,              \* clock advances so far
    prefCountryColumn,  \* whether table users has a preferred_country column
    users,              \* users table: user_id -> balance
    payments,           \* payments table: payment_id -> row
    subscriptions,      \* subscriptions table: sequence of rows, id = index
    remote,             \* accounts on the Marzban panel: username -> expire
    token,              \* marzban.token (0 = None); a token is named by its issue time
    token_expiry,       \* marzban.token_expiry (0 = None)
    handlers,           \* handler invocations, one per worker thread
    delivered,          \* payment events delivered so far
    adminOps,           \* admin_add_balance commands so far
    crashes,            \* handler invocations cut short so far
    creditCount,        \* history: balance credits made per payment key
    gateWins,           \* history: times the dedup gate let a key through
    provCount,          \* history: marzban.create_user calls made per payment key
    sent,               \* events the payment providers hold: key -> content
    op,                 \* a direct call of a provisioning function: its locals
    calc                \* a pricing computation: its arguments and result

vars == <<now, ticks, prefCountryColumn, users, payments, subscriptions, remote,
          token, token_expiry, handlers, delivered, adminOps, crashes,
          creditCount, gateWins, provCount, sent, op, calc>>

AllKeys == ChargeIds \cup InvoiceIds

\* the locals of one invocation and what it has told the outside:
\*   msgs   messages sent to the user, result  how the invocation ended,
\*   errlog logger.error written by the handler itself (bot.py 901, 963),
\*   exp0   history: expiry of the payer's renewable subscription (the
\*          row extend_vpn_subscription selects) when the credit was made
IdleHandler ==
    [pc |-> "idle", entry |-> "none", user |-> 0, key |-> NoKey, payload |-> <<>>,
     tariff_key |-> "", rub |-> 0, days |-> 0,
     name |-> <<>>, tok |-> 0, link |-> "",
     msgs |-> {}, result |-> "none", errlog |-> FALSE,
     gate |-> FALSE, credited |-> FALSE, created |-> FALSE, failed |-> FALSE,
     exp0 |-> 0]

\* get_user_balance
Balance(us, u) == IF u \in DOMAIN us THEN us[u] ELSE 0

InFlight(h) == handlers[h].pc \notin {"idle", "done"}

\* the environment may still interfere (clock, administrator, kill)
EnvBudget == ticks + adminOps + crashes < MaxEnvEvents

\* no direct call is running / nothing has been computed
NoOp ==
    [pc |-> "idle", fn |-> "none", calls |-> 0, user |-> 0, days |-> 0,
     name |-> <<>>, link |-> "", sub |-> 0, sub_expires_at |-> 0,
     current_expire |-> 0, at |-> 0, new_expire |-> 0, pushed |-> FALSE,
     failed |-> FALSE, ret |-> "none"]
NoCalc == [fn |-> "none", arg |-> "", amount |-> 0, result |-> 0]

\* The database file outlives the process and init_db only does CREATE TABLE
\* IF NOT EXISTS: the users table is either the one init_db creates (no
\* preferred_country column) or an older file's table that has the column.
Init ==
    /\ now = 1
    /\ ticks = 0
    /\ prefCountryColumn \in BOOLEAN
    /\ users = <<>>
    /\ payments = <<>>
    /\ subscriptions = <<>>
    /\ remote = <<>>
    /\ token = 0
    /\ token_expiry = 0
    /\ handlers = [h \in Handlers |-> IdleHandler]
    /\ delivered = 0
    /\ adminOps = 0
    /\ crashes = 0
    /\ creditCount = [k \in AllKeys |-> 0]
    /\ gateWins = [k \in AllKeys |-> 0]
    /\ provCount = [k \in AllKeys |-> 0]
    /\ sent = <<>>
    /\ op = NoOp
    /\ calc = NoCalc

\* ------------------------------------------------------- ledger store
\* a function extended or overwritten at one point
Put(f, k, v) == [x \in (DOMAIN f) \cup {k} |-> IF x = k THEN v ELSE f[x]]

\* the table without its UNIQUE constraint on payment_id
PaymentIdTaken_noUnique(pays, k) == FALSE

\* payments.payment_id TEXT UNIQUE: the INSERT raises IntegrityError when taken
PaymentIdTaken(pays, k) == k \in DOMAIN pays

\* add_payment: INSERT INTO payments
add_payment(pays, u, amount, currency, k, tariff, status) ==
    Put(pays, k, [user_id |-> u, amount |-> amount, currency |-> currency,
                  tariff |-> tariff, status |-> status])

\* the UPDATE without "AND status = 'pending'"
complete_payment_affected_anyStatus(pays, k) ==
    IF k \in DOMAIN pays THEN 1 ELSE 0

\* complete_payment: rowcount of UPDATE ... WHERE payment_id = ? AND status = 'pending'
complete_payment_affected(pays, k) ==
    IF k \in DOMAIN pays /\ pays[k].status = "pending" THEN 1 ELSE 0

\* complete_payment: the table after the UPDATE
complete_payment(pays, k) ==
    IF complete_payment_affected(pays, k) > 0
    THEN [pays EXCEPT ![k].status = "completed"]
    ELSE pays

\* update_user_balance writing the amount over the stored balance
update_user_balance_overwrite(us, u, amount) == Put(us, u, amount)

\* update_user_balance: INSERT ... ON CONFLICT(user_id) DO UPDATE SET balance = balance + ?
update_user_balance(us, u, amount) ==
    IF u \in DOMAIN us THEN [us EXCEPT ![u] = @ + amount] ELSE Put(us, u, amount)

\* WHERE user_id = ? AND status = 'active' AND expires_at > datetime('now')
ActiveSubs(subs, u, t) ==
    {i \in DOMAIN subs :
        subs[i].user_id = u /\ subs[i].status = "active" /\ subs[i].expires_at > t}

\* ... ORDER BY expires_at DESC LIMIT 1: the expiry of the selected row, 0 if none
RenewableExpiry(subs, u, t) ==
    IF ActiveSubs(subs, u, t) = {} THEN 0
    ELSE LET i == CHOOSE i \in ActiveSubs(subs, u, t) :
                     \A j \in ActiveSubs(subs, u, t) :
                         subs[j].expires_at <= subs[i].expires_at
         IN  subs[i].expires_at

\* create_vpn_subscription without its "if not config_link" check
ConfigLinkOk_unchecked(link) == TRUE

\* create_vpn_subscription: "if not config_link: return False"
ConfigLinkOk(link) == link # ""

\* subscriptions.marzban_username TEXT UNIQUE
UsernameTaken(subs, name) == \E i \in DOMAIN subs : subs[i].marzban_username = name

\* ------------------------------------------------------------- helpers
SetH(h, r) == handlers' = [handlers EXCEPT ![h] = r]

\* a new invocation takes the first free worker thread
FreeSlot(h) ==
    /\ ~InFlight(h)
    /\ \A o \in Handlers : o < h => InFlight(o)

\* how an invocation ends when an exception leaves the handler body:
\* telebot lets it propagate, crypto_webhook_handler logs it and answers 500
Raised(r) ==
    IF r.entry = "crypto"
    THEN [r EXCEPT !.pc = "done", !.result = "500", !.errlog = TRUE]
    ELSE [r EXCEPT !.pc = "done", !.result = "raised"]

\* webhook_handler if telebot ran the message handler inside process_new_updates
WebhookAnswer_sync(r) == IF r.result = "raised" THEN "500" ELSE "200"

\* webhook_handler: bot = telebot.TeleBot(BOT_TOKEN) is threaded, so
\* process_new_updates queues the message handler on a worker thread and
\* returns; the endpoint answers 'OK', 200 whatever the handler does later
WebhookAnswer(r) == "200"

\* crypto_webhook_handler answering 'Error', 500 where it answers 'OK', 200
Acknowledge_error(r) == [r EXCEPT !.pc = "done", !.result = "500"]

\* crypto_webhook_handler: return 'OK', 200 with nothing (more) done
Acknowledge(r) == [r EXCEPT !.pc = "done", !.result = "200"]

\* the handler's last statement: if subscription: send_photo(...)
\* else (successful_payment_handler only): send_message(failure), logger.error
Finish(r) ==
    LET res == IF r.entry = "crypto" THEN "200" ELSE "returned" IN
    IF r.created
    THEN [r EXCEPT !.pc = "done", !.result = res, !.msgs = @ \cup {"success"}]
    ELSE IF r.entry = "stars"
         THEN [r EXCEPT !.pc = "done", !.result = res,
                        !.msgs = @ \cup {"failure"}, !.errlog = TRUE]
         ELSE [r EXCEPT !.pc = "done", !.result = res]

\* create_vpn_subscription going on to its INSERT whatever create_user returned
AfterCreateUser_always(r) == [r EXCEPT !.pc = "insert_sub"]

\* create_user has returned r.link: create_vpn_subscription goes on to its
\* INSERT, or returns False and the handler finishes
AfterCreateUser(r) ==
    IF ConfigLinkOk(r.link)
    THEN [r EXCEPT !.pc = "insert_sub"]
    ELSE Finish(r)

\* ----------------------------------------------------------- the clock
Tick(step) ==
    /\ ticks < MaxTicks /\ EnvBudget
    /\ now' = now + step
    /\ ticks' = ticks + 1
    /\ UNCHANGED <<prefCountryColumn, users, payments, subscriptions, remote, token,
                   token_expiry, handlers, delivered, adminOps, crashes,
                   creditCount, gateWins, provCount, sent,
                   op, calc>>

\* --------------------------------------------- successful_payment_handler
\* from its entry to add_payment(user_id, rub_amount, 'XTR', charge_id,
\* tariff_key, 'completed'): the payload is checked, the tariff looked up,
\* the amount converted, the payment row inserted
StarsPayment(h, u, k, stars, p) ==
    LET event == [user |-> u, payload |-> p, total_amount |-> stars * 100]
        r0 == [IdleHandler EXCEPT !.entry = "stars", !.user = u, !.key = k,
                                  !.payload = p]
        parts == Split(p, "_")
        tk == IF Len(parts) >= 2 THEN TariffOf(parts[2]) ELSE ""
        rub == RubOfStars(event.total_amount \div 100)
    IN
    /\ FreeSlot(h)
    /\ delivered < MaxDeliveries
    /\ k \in DOMAIN sent => sent[k] = event
    /\ sent' = Put(sent, k, event)
    /\ delivered' = delivered + 1
    /\ IF ~(StartsWith(p, "stars") /\ tk # "")
       THEN /\ SetH(h, [r0 EXCEPT !.pc = "done", !.result = "returned"])
            /\ UNCHANGED <<payments, gateWins>>
       ELSE IF PaymentIdTaken(payments, k)
       THEN /\ SetH(h, Raised([r0 EXCEPT !.tariff_key = tk]))
            /\ UNCHANGED <<payments, gateWins>>
       ELSE /\ payments' = add_payment(payments, u, rub, "XTR", k, tk, "completed")
            /\ gateWins' = [gateWins EXCEPT ![k] = @ + 1]
            /\ SetH(h, [r0 EXCEPT !.pc = "credit", !.gate = TRUE, !.tariff_key = tk,
                                  !.rub = rub, !.days = TARIFFS[tk].days])
    /\ UNCHANGED <<now, ticks, prefCountryColumn, users, subscriptions, remote, token,
                   token_expiry, adminOps, crashes, creditCount, provCount,
                   op, calc>>

\* ------------------------------------------------- crypto_webhook_handler
\* from its entry to the tariff lookup: complete_payment(str(invoice_id)),
\* then payload.split('_'), int(parts[2]), TARIFFS.get(parts[1])
CryptoWebhook(h, k, p) ==
    LET event == [user |-> 0, payload |-> p, total_amount |-> 0]
        r0 == [IdleHandler EXCEPT !.entry = "crypto", !.key = k, !.payload = p]
        parts == Split(p, "_")
    IN
    /\ FreeSlot(h)
    /\ delivered < MaxDeliveries
    /\ k \in DOMAIN sent => sent[k] = event
    /\ sent' = Put(sent, k, event)
    /\ delivered' = delivered + 1
    /\ payments' = complete_payment(payments, k)
    /\ IF complete_payment_affected(payments, k) > 0
       THEN /\ gateWins' = [gateWins EXCEPT ![k] = @ + 1]
            /\ LET r1 == [r0 EXCEPT !.gate = TRUE] IN
               IF Len(parts) >= 3 /\ parts[1] = <<"crypto">>
               THEN IF ~IsInt(parts[3])
                    THEN SetH(h, Raised(r1))
                    ELSE LET u == IntOf(parts[3])
                             tk == TariffOf(parts[2])
                         IN  IF tk # ""
                             THEN SetH(h, [r1 EXCEPT !.pc = "credit", !.user = u,
                                             !.tariff_key = tk,
                                             !.rub = TARIFFS[tk].price,
                                             !.days = TARIFFS[tk].days])
                             ELSE SetH(h, Acknowledge([r1 EXCEPT !.user = u]))
               ELSE SetH(h, Acknowledge(r1))
       ELSE /\ UNCHANGED gateWins
            /\ SetH(h, Acknowledge(r0))
    /\ UNCHANGED <<now, ticks, prefCountryColumn, users, subscriptions, remote, token,
                   token_expiry, adminOps, crashes, creditCount, provCount,
                   op, calc>>


\* ----------------------------------- both handlers, from the credit onwards
\* update_user_balance(user_id, rub_amount) / update_user_balance(user_id, tariff['price'])
Credit(h) ==
    LET r == handlers[h] IN
    /\ r.pc = "credit"
    /\ users' = update_user_balance(users, r.user, r.rub)
    /\ creditCount' = [creditCount EXCEPT ![r.key] = @ + 1]
    /\ SetH(h, [r EXCEPT !.pc = "prepare", !.credited = TRUE,
                         !.exp0 = RenewableExpiry(subscriptions, r.user, now)])
    /\ UNCHANGED <<now, ticks, prefCountryColumn, payments, subscriptions, remote,
                   token, token_expiry, delivered, adminOps, crashes, gateWins,
                   provCount, sent,
                   op, calc>>

\* _auth looking at the token alone
CachedTokenValid_noExpiry(tk, exp, t) == tk # 0

\* _auth: the cached token is returned while now < token_expiry
CachedTokenValid(tk, exp, t) == tk # 0 /\ exp # 0 /\ t < exp

\* bot.send_message("creating your key" / "payment received"), then
\* SELECT preferred_country FROM users (sqlite3.OperationalError without the
\* column), then create_vpn_subscription: username = f"user_{user_id}_{now}",
\* marzban.create_user(username, days) is entered and _auth looks at the cache
Prepare(h) ==
    LET r == handlers[h]
        r1 == [r EXCEPT !.msgs = @ \cup {IF r.entry = "crypto" THEN "received"
                                                               ELSE "creating"}]
        r2 == [r1 EXCEPT !.name = <<r.user, now>>]
    IN
    /\ r.pc = "prepare"
    /\ IF prefCountryColumn
       THEN /\ provCount' = [provCount EXCEPT ![r.key] = @ + 1]
            /\ IF CachedTokenValid(token, token_expiry, now)
               THEN SetH(h, [r2 EXCEPT !.pc = "create_user", !.tok = token])
               ELSE SetH(h, [r2 EXCEPT !.pc = "auth_req"])
       ELSE /\ SetH(h, Raised(r1))
            /\ UNCHANGED provCount
    /\ UNCHANGED <<now, ticks, prefCountryColumn, users, payments, subscriptions,
                   remote, token, token_expiry, delivered, adminOps, crashes,
                   creditCount, gateWins, sent,
                   op, calc>>

\* _auth: POST /api/admin/token; ok = status 200, otherwise non-200 or exception
AuthReq(h, ok) ==
    LET r == handlers[h] IN
    /\ r.pc = "auth_req"
    /\ IF ok
       THEN SetH(h, [r EXCEPT !.pc = "auth_set_token", !.tok = now])
       ELSE SetH(h, AfterCreateUser([r EXCEPT !.tok = 0, !.link = "", !.failed = TRUE]))
    /\ UNCHANGED <<now, ticks, prefCountryColumn, users, payments, subscriptions,
                   remote, token, token_expiry, delivered, adminOps, crashes,
                   creditCount, gateWins, provCount, sent,
                   op, calc>>

\* _auth: self.token = data['access_token']
AuthSetToken(h) ==
    LET r == handlers[h] IN
    /\ r.pc = "auth_set_token"
    /\ token' = r.tok
    /\ SetH(h, [r EXCEPT !.pc = "auth_set_expiry"])
    /\ UNCHANGED <<now, ticks, prefCountryColumn, users, payments, subscriptions,
                   remote, token_expiry, delivered, adminOps, crashes,
                   creditCount, gateWins, provCount, sent,
                   op, calc>>

\* _auth: self.token_expiry = now + 1h; return self.token
AuthSetExpiry(h) ==
    LET r == handlers[h] IN
    /\ r.pc = "auth_set_expiry"
    /\ token_expiry' = now + TOKEN_TTL
    /\ SetH(h, [r EXCEPT !.pc = "create_user", !.tok = token])
    /\ UNCHANGED <<now, ticks, prefCountryColumn, users, payments, subscriptions,
                   remote, token, delivered, adminOps, crashes,
                   creditCount, gateWins, provCount, sent,
                   op, calc>>

\* create_user: POST /api/user with expire = now + days, then
\* GET /api/user/{username}/config.
\*   "ok"     the panel creates the account and hands out the link
\*   "fail"   the POST is answered non-200 (409 when the name exists) or
\*            never reaches the panel: create_user returns None
\*   "orphan" the panel creates the account, but the POST's response is
\*            lost or the config request fails or carries no link:
\*            create_user returns None or ''
CreateUser(h, outcome) ==
    LET r == handlers[h]
        expire == now + r.days * DAY_SECONDS
    IN
    /\ r.pc = "create_user"
    /\ outcome \in {"ok", "orphan"} => r.name \notin DOMAIN remote
    /\ remote' = IF outcome = "fail" THEN remote ELSE Put(remote, r.name, expire)
    /\ IF outcome = "ok"
       THEN SetH(h, AfterCreateUser([r EXCEPT !.link = "link"]))
       ELSE SetH(h, AfterCreateUser([r EXCEPT !.link = "", !.failed = TRUE]))
    /\ UNCHANGED <<now, ticks, prefCountryColumn, users, payments, subscriptions,
                   token, token_expiry, delivered, adminOps, crashes,
                   creditCount, gateWins, provCount, sent,
                   op, calc>>

\* create_vpn_subscription: INSERT INTO subscriptions (..., expires_at = now + days),
\* then the handler's result message
InsertSub(h) ==
    LET r == handlers[h] IN
    /\ r.pc = "insert_sub"
    /\ IF UsernameTaken(subscriptions, r.name)
       THEN /\ SetH(h, Raised(r))
            /\ UNCHANGED subscriptions
       ELSE /\ subscriptions' = Append(subscriptions,
                  [user_id |-> r.user, marzban_username |-> r.name,
                   config_link |-> r.link, status |-> "active",
                   expires_at |-> now + r.days * DAY_SECONDS])
            /\ SetH(h, Finish([r EXCEPT !.created = TRUE]))
    /\ UNCHANGED <<now, ticks, prefCountryColumn, users, payments, remote, token,
                   token_expiry, delivered, adminOps, crashes, creditCount,
                   gateWins, provCount, sent,
                   op, calc>>

\* an invocation is cut short: an exception out of a store or send call
\* (sqlite3 "database is locked", a Telegram API error) or the worker is killed
Abort(h) ==
    /\ InFlight(h)
    /\ crashes < MaxCrashes /\ EnvBudget
    /\ crashes' = crashes + 1
    /\ SetH(h, [handlers[h] EXCEPT !.pc = "done", !.result = "aborted"])
    /\ UNCHANGED <<now, ticks, prefCountryColumn, users, payments, subscriptions,
                   remote, token, token_expiry, delivered, adminOps,
                   creditCount, gateWins, provCount, sent,
                   op, calc>>

\* ------------------------------------------------------ other operations
\* callback_handler, pay_crypto_: createInvoice succeeded, the pending row is added
CreateInvoice(u, tk, k) ==
    /\ tk \in DOMAIN TARIFFS
    /\ k \notin DOMAIN payments
    /\ k \notin DOMAIN sent
    /\ payments' = add_payment(payments, u, TARIFFS[tk].price, "USDT", k, tk, "pending")
    /\ UNCHANGED <<now, ticks, prefCountryColumn, users, subscriptions, remote, token,
                   token_expiry, handlers, delivered, adminOps, crashes,
                   creditCount, gateWins, provCount, sent,
                   op, calc>>

\* admin_add_balance: update_user_balance(int(parts[1]), int(parts[2]))
AdminAddBalance(u, amount) ==
    /\ adminOps < MaxAdminOps /\ EnvBudget
    /\ adminOps' = adminOps + 1
    /\ users' = update_user_balance(users, u, amount)
    /\ UNCHANGED <<now, ticks, prefCountryColumn, payments, subscriptions, remote,
                   token, token_expiry, handlers, delivered, crashes,
                   creditCount, gateWins, provCount, sent,
                   op, calc>>

Next ==
    \/ \E step \in TickSteps : Tick(step)
    \/ \E h \in Handlers, u \in Payers, k \in ChargeIds, stars \in StarsAmounts :
          \E p \in StarsPayloads(u) \cup {<<"other">>} : StarsPayment(h, u, k, stars, p)
    \/ \E h \in Handlers, k \in InvoiceIds, p \in CryptoPayloads : CryptoWebhook(h, k, p)
    \/ \E h \in Handlers : Credit(h)
    \/ \E h \in Handlers : Prepare(h)
    \/ \E h \in Handlers, ok \in BOOLEAN : AuthReq(h, ok)
    \/ \E h \in Handlers : AuthSetToken(h)
    \/ \E h \in Handlers : AuthSetExpiry(h)
    \/ \E h \in Handlers, outcome \in {"ok", "fail", "orphan"} : CreateUser(h, outcome)
    \/ \E h \in Handlers : InsertSub(h)
    \/ \E h \in Handlers : Abort(h)
    \/ \E u \in Payers, tk \in EventTariffs, k \in InvoiceIds : CreateInvoice(u, tk, k)
    \/ \E u \in Payers, amount \in AdminAmounts : AdminAddBalance(u, amount)

Spec == Init /\ [][Next]_vars


\* ============================ the provisioning functions called directly
\* create_vpn_subscription and extend_vpn_subscription, one call at a time,
\* with the clock advancing between their statements.
CallDays      == {30, 90}
CallTickSteps == {1, 31 * DAY_SECONDS}

Max(a, b) == IF a >= b THEN a ELSE b

\* extend_user: new_expire from the panel's current expire (0 = none)
ExtendExpire_noMax(current_expire, t, days) == current_expire + days * DAY_SECONDS

ExtendExpire(current_expire, t, days) ==
    IF current_expire # 0
    THEN Max(current_expire, t) + days * DAY_SECONDS
    ELSE t + days * DAY_SECONDS

\* _auth run by one caller alone: the cached token, or a remote auth that
\* on success stores token and expiry; ret = 0 is None
AuthResult(tk, exp, t, ok) ==
    IF CachedTokenValid(tk, exp, t) THEN [token |-> tk, expiry |-> exp, ret |-> tk]
    ELSE IF ok THEN [token |-> t, expiry |-> t + TOKEN_TTL, ret |-> t]
    ELSE [token |-> tk, expiry |-> exp, ret |-> 0]

\* the selected row of extend_vpn_subscription's SELECT (0 = no row)
RenewableSub(subs, u, t) ==
    IF ActiveSubs(subs, u, t) = {} THEN 0
    ELSE CHOOSE i \in ActiveSubs(subs, u, t) :
             \A j \in ActiveSubs(subs, u, t) :
                 subs[j].expires_at <= subs[i].expires_at

CallIdle == op.pc \in {"idle", "done"}

HandlerVars == <<prefCountryColumn, users, payments, handlers, delivered, adminOps,
                 crashes, creditCount, gateWins, provCount, sent, calc>>

CallTick(step) ==
    /\ ticks < MaxCallTicks
    /\ now' = now + step
    /\ ticks' = ticks + 1
    /\ UNCHANGED <<subscriptions, remote, token, token_expiry, op>>
    /\ UNCHANGED HandlerVars

\* create_vpn_subscription(user_id, days): the username, then create_user's _auth
CallCreate(u, d, ok) ==
    LET a == AuthResult(token, token_expiry, now, ok)
        o == [NoOp EXCEPT !.fn = "create", !.calls = op.calls + 1, !.user = u,
                          !.days = d, !.name = <<u, now>>]
    IN
    /\ CallIdle
    /\ op.calls < MaxCalls
    /\ token' = a.token
    /\ token_expiry' = a.expiry
    /\ op' = IF a.ret # 0 THEN [o EXCEPT !.pc = "create_user"]
             ELSE [o EXCEPT !.pc = "done", !.ret = "False"]
    /\ UNCHANGED <<now, ticks, subscriptions, remote>>
    /\ UNCHANGED HandlerVars

\* create_user: POST /api/user with expire = now + days, GET .../config
CallCreateUser(outcome) ==
    /\ op.pc = "create_user"
    /\ outcome \in {"ok", "orphan"} => op.name \notin DOMAIN remote
    /\ remote' = IF outcome = "fail" THEN remote
                 ELSE Put(remote, op.name, now + op.days * DAY_SECONDS)
    /\ op' = IF outcome = "ok" /\ ConfigLinkOk("link")
             THEN [op EXCEPT !.pc = "insert_sub", !.link = "link"]
             ELSE [op EXCEPT !.pc = "done", !.ret = "False"]
    /\ UNCHANGED <<now, ticks, subscriptions, token, token_expiry>>
    /\ UNCHANGED HandlerVars

\* create_vpn_subscription: INSERT INTO subscriptions, expires_at = now + days
CallInsert ==
    /\ op.pc = "insert_sub"
    /\ IF UsernameTaken(subscriptions, op.name)
       THEN /\ op' = [op EXCEPT !.pc = "done", !.ret = "raised"]
            /\ UNCHANGED subscriptions
       ELSE /\ subscriptions' = Append(subscriptions,
                  [user_id |-> op.user, marzban_username |-> op.name,
                   config_link |-> op.link, status |-> "active",
                   expires_at |-> now + op.days * DAY_SECONDS])
            /\ op' = [op EXCEPT !.pc = "done", !.ret = "dict"]
    /\ UNCHANGED <<now, ticks, remote, token, token_expiry>>
    /\ UNCHANGED HandlerVars

\* extend_vpn_subscription(user_id, days): the SELECT, "if not sub: return
\* None", then extend_user's _auth
ExtendSelect(u, d, ok) ==
    LET i == RenewableSub(subscriptions, u, now)
        a == AuthResult(token, token_expiry, now, ok)
        o == [NoOp EXCEPT !.fn = "extend", !.calls = op.calls + 1, !.user = u,
                          !.days = d]
    IN
    /\ CallIdle
    /\ op.calls < MaxCalls
    /\ IF i = 0
       THEN /\ op' = [o EXCEPT !.pc = "done", !.ret = "None"]
            /\ UNCHANGED <<token, token_expiry>>
       ELSE /\ token' = a.token
            /\ token_expiry' = a.expiry
            /\ LET o1 == [o EXCEPT !.sub = i,
                                   !.name = subscriptions[i].marzban_username,
                                   !.sub_expires_at = subscriptions[i].expires_at]
               IN op' = IF a.ret # 0 THEN [o1 EXCEPT !.pc = "get_user"]
                        ELSE [o1 EXCEPT !.pc = "done", !.ret = "None",
                                        !.failed = TRUE]
    /\ UNCHANGED <<now, ticks, subscriptions, remote>>
    /\ UNCHANGED HandlerVars

\* extend_user: GET /api/user/{username}; on 200 new_expire is computed
ExtendGet(ok) ==
    /\ op.pc = "get_user"
    /\ IF ok /\ op.name \in DOMAIN remote
       THEN op' = [op EXCEPT !.pc = "put_user",
                             !.current_expire = remote[op.name], !.at = now,
                             !.new_expire = ExtendExpire(remote[op.name], now, op.days)]
       ELSE op' = [op EXCEPT !.pc = "done", !.ret = "None", !.failed = TRUE]
    /\ UNCHANGED <<now, ticks, subscriptions, remote, token, token_expiry>>
    /\ UNCHANGED HandlerVars

\* extend_user returning True whatever became of the PUT
extend_user_result_ignored(outcome) == TRUE

\* extend_user: return update_resp.status_code == 200 (False on an exception)
extend_user_result(outcome) == outcome = "ok"

\* extend_user: PUT /api/user/{username} {'expire': new_expire}
\*   "ok"      applied and answered 200
\*   "lost"    applied, but the answer is not 200 or never arrives
\*   "refused" not applied
ExtendPut(outcome) ==
    /\ op.pc = "put_user"
    /\ remote' = IF outcome = "refused" THEN remote
                 ELSE [remote EXCEPT ![op.name] = op.new_expire]
    /\ LET o == [op EXCEPT !.pushed = (outcome # "refused"),
                            !.failed = (outcome # "ok")]
       IN  op' = IF extend_user_result(outcome)
                 THEN [o EXCEPT !.pc = "update_sub"]
                 ELSE [o EXCEPT !.pc = "done", !.ret = "None"]
    /\ UNCHANGED <<now, ticks, subscriptions, token, token_expiry>>
    /\ UNCHANGED HandlerVars

\* extend_vpn_subscription: UPDATE subscriptions SET expires_at =
\* sub['expires_at'] + days WHERE id = sub['id']
ExtendUpdate ==
    /\ op.pc = "update_sub"
    /\ subscriptions' = [subscriptions EXCEPT ![op.sub].expires_at =
                             op.sub_expires_at + op.days * DAY_SECONDS]
    /\ op' = [op EXCEPT !.pc = "done", !.ret = "new_expire"]
    /\ UNCHANGED <<now, ticks, remote, token, token_expiry>>
    /\ UNCHANGED HandlerVars

NextCall ==
    \/ \E step \in CallTickSteps : CallTick(step)
    \/ \E u \in Payers, d \in CallDays, ok \in BOOLEAN : CallCreate(u, d, ok)
    \/ \E outcome \in {"ok", "fail", "orphan"} : CallCreateUser(outcome)
    \/ CallInsert
    \/ \E u \in Payers, d \in CallDays, ok \in BOOLEAN : ExtendSelect(u, d, ok)
    \/ \E ok \in BOOLEAN : ExtendGet(ok)
    \/ \E outcome \in {"ok", "lost", "refused"} : ExtendPut(outcome)
    \/ ExtendUpdate

SpecCall == Init /\ [][NextCall]_vars


\* ====================================================== pricing arithmetic
\* the amounts callback_handler quotes for a tariff and the credit
\* successful_payment_handler computes from a Stars amount
CeilDiv(a, b) == (a + b - 1) \div b

\* math.ceil(tariff['price'] / STAR_PRICE_RUB)
stars_amount(price) == CeilDiv(price * 100, STAR_PRICE_RUB_X100)

\* round(tariff['price'] / USDT_PRICE_RUB, 2), in hundredths of a USDT
\* (price / 90 is never half-way between two hundredths)
amount_usd_cents(price) == (2 * price * 100 + USDT_PRICE_RUB) \div (2 * USDT_PRICE_RUB)

AllButCalc == <<now, ticks, prefCountryColumn, users, payments, subscriptions,
                remote, token, token_expiry, handlers, delivered, adminOps,
                crashes, creditCount, gateWins, provCount, sent, op>>

\* callback_handler, tariff_: the Stars button
QuoteStars(tk) ==
    /\ calc' = [fn |-> "stars_amount", arg |-> tk, amount |-> TARIFFS[tk].price,
                result |-> stars_amount(TARIFFS[tk].price)]
    /\ UNCHANGED AllButCalc

\* callback_handler, pay_crypto_: the invoice amount
QuoteCrypto(tk) ==
    /\ calc' = [fn |-> "amount_usd", arg |-> tk, amount |-> TARIFFS[tk].price,
                result |-> amount_usd_cents(TARIFFS[tk].price)]
    /\ UNCHANGED AllButCalc

\* successful_payment_handler: rub_amount = int(amount_stars * STAR_PRICE_RUB)
ConvertStars(stars) ==
    /\ calc' = [fn |-> "rub_amount", arg |-> "", amount |-> stars,
                result |-> RubOfStars(stars)]
    /\ UNCHANGED AllButCalc

NextCalc ==
    \/ \E tk \in DOMAIN TARIFFS : QuoteStars(tk)
    \/ \E tk \in DOMAIN TARIFFS : QuoteCrypto(tk)
    \/ \E stars \in 1..MaxStars : ConvertStars(stars)

SpecCalc == Init /\ [][NextCalc]_vars


\* ================================================================ claims
Ended(h)   == handlers[h].pc = "done" /\ handlers[h].result # "aborted"
Stepped(h) == handlers'[h] # handlers[h]
RemotePcs  == {"auth_req", "create_user"}
RowsOf(subs, u) == {i \in DOMAIN subs : subs[i].user_id = u}
\* one payment event has been delivered and no administrator has intervened
SinglePayment == delivered = 1 /\ adminOps = 0

\* ---- C1 ----------------------------------------------------------------
\* C1: however often an event with one idempotency key is delivered, on
\* either entry point, the key is credited at most once (exactly once when
\* a delivery got through the gate with a resolvable tariff and ran to its
\* end), create_user is called at most once for it, and a delivery that did
\* not get through the gate changes no balance, no subscription, no panel
\* account and makes no remote request.
C1_State ==
    /\ \A k \in AllKeys : creditCount[k] <= 1 /\ provCount[k] <= 1 /\ gateWins[k] <= 1
    /\ \A h \in Handlers :
         /\ handlers[h].credited => creditCount[handlers[h].key] = 1
         /\ (Ended(h) /\ handlers[h].gate /\ handlers[h].tariff_key # "")
               => handlers[h].credited

C1_Step ==
    /\ (adminOps' = adminOps /\
        (users' # users \/ subscriptions' # subscriptions \/ remote' # remote))
          => \E h \in Handlers : Stepped(h) /\ handlers[h].gate
    /\ \A h \in Handlers :
          (Stepped(h) /\ handlers[h].pc \in RemotePcs) => handlers[h].gate

C1_Idempotent == []C1_State /\ [][C1_Step]_vars

\* a second delivery of a key that was credited has ended without passing the gate
C1_Witness ==
    \E h \in Handlers :
        /\ Ended(h) /\ ~handlers[h].gate
        /\ handlers[h].key \in AllKeys
        /\ handlers[h].result \in {"raised", "200"}
        /\ creditCount[handlers[h].key] = 1

\* ---- C2 ----------------------------------------------------------------
\* C2: of all complete_payment calls on one key, interleaved in any way, at
\* most one returns true, and only on a row that was pending; a call on an
\* absent or completed key returns false and leaves the payments table as
\* it was.
C2_Step ==
    \A h \in Handlers :
        (Stepped(h) /\ ~InFlight(h) /\ handlers'[h].entry = "crypto") =>
            LET k == handlers'[h].key IN
            IF handlers'[h].gate
            THEN /\ k \in DOMAIN payments /\ payments[k].status = "pending"
                 /\ payments' = [payments EXCEPT ![k].status = "completed"]
            ELSE /\ k \notin DOMAIN payments \/ payments[k].status = "completed"
                 /\ payments' = payments

C2_CompleteOnce ==
    /\ [](\A k \in InvoiceIds : gateWins[k] <= 1)
    /\ [][C2_Step]_vars

\* two calls on one invoice id overlap: the first returned true and its
\* handler is still running when the second returns false
C2_Witness ==
    \E h1, h2 \in Handlers :
        /\ h1 # h2
        /\ handlers[h1].key = handlers[h2].key
        /\ handlers[h1].key \in InvoiceIds
        /\ handlers[h1].gate /\ InFlight(h1)
        /\ ~handlers[h2].gate /\ handlers[h2].result = "200"

\* ---- C3 ----------------------------------------------------------------
\* C3: with the users table as init_db creates it, every payment that got
\* through the dedup gate with a resolvable tariff has, when its handler
\* ends, caused exactly one create_user / extend_user call.
C3_ProvisionedOnce ==
    \A h \in Handlers :
        (~prefCountryColumn /\ Ended(h) /\ handlers[h].gate
            /\ handlers[h].tariff_key # "")
          => provCount[handlers[h].key] = 1

\* ---- C4 ----------------------------------------------------------------
\* C4: a payment by a user who has an active, unexpired subscription row
\* extends that row by the tariff's days (ledger expiry = old expiry + d)
\* and adds no subscription row and no panel account.
C4_State ==
    \A h \in Handlers :
        LET r == handlers[h] IN
        (Ended(h) /\ ~r.failed /\ r.result \in {"returned", "200"} /\ r.exp0 # 0)
          => /\ ~r.created
             /\ \E i \in RowsOf(subscriptions, r.user) :
                   subscriptions[i].expires_at = r.exp0 + r.days * DAY_SECONDS

C4_Step ==
    \A h \in Handlers :
        (Stepped(h) /\ handlers[h].exp0 # 0)
          => /\ Len(subscriptions') = Len(subscriptions)
             /\ DOMAIN remote' = DOMAIN remote

C4_ExtendsActive == []C4_State /\ [][C4_Step]_vars

\* ---- C5 ----------------------------------------------------------------
\* C5: a new user pays for the 30-day tariff in the chat with a fresh key
\* and the panel creates the account: afterwards the user has exactly one
\* row, expiring 30 days after the insert, create_user was the only
\* provisioning call, and the balance is what it was before (0).
C5_ScenarioA ==
    \A h \in Handlers :
        LET r == handlers[h] IN
        (Ended(h) /\ SinglePayment /\ r.entry = "stars" /\ r.tariff_key = "month"
            /\ r.created)
          => /\ Cardinality(RowsOf(subscriptions, r.user)) = 1
             /\ \A i \in RowsOf(subscriptions, r.user) :
                   /\ subscriptions[i].expires_at <= now + 30 * DAY_SECONDS
                   /\ subscriptions[i].expires_at >= r.name[2] + 30 * DAY_SECONDS
             /\ provCount[r.key] = 1
             /\ DOMAIN remote = {r.name}
             /\ Balance(users, r.user) = 0

\* ---- C6 ----------------------------------------------------------------
\* C6: when the remote create fails after the credit (auth refused, POST
\* refused or lost, no config link), the handler neither creates nor
\* modifies a subscription row and does not touch the balance again: a
\* payment made on its own leaves no row and the balance at the old value
\* plus the credit; on both entry points.
C6_State ==
    \A h \in Handlers :
        LET r == handlers[h] IN
        r.failed
          => /\ r.credited /\ ~r.created
             /\ (Ended(h) /\ SinglePayment)
                   => /\ subscriptions = <<>>
                      /\ Balance(users, r.user) \in {0, r.rub}

C6_Step ==
    \A h \in Handlers :
        (Stepped(h) /\ handlers'[h].failed)
          => subscriptions' = subscriptions /\ users' = users

C6_CreateFailed == []C6_State /\ [][C6_Step]_vars

\* a create has failed on each entry point and both handlers have ended
C6_Witness ==
    \E h1, h2 \in Handlers :
        /\ handlers[h1].entry = "stars" /\ handlers[h2].entry = "crypto"
        /\ Ended(h1) /\ handlers[h1].credited /\ handlers[h1].failed
        /\ Ended(h2) /\ handlers[h2].credited /\ handlers[h2].failed

\* ---- C7 ----------------------------------------------------------------
\* C7: a handler run whose provisioning failed after the payment was
\* accepted ends with a failure message sent to the user, so that nobody is
\* told "payment received" and then nothing; on both entry points.
C7_FailureNotified ==
    \A h \in Handlers :
        LET r == handlers[h] IN
        (Ended(h) /\ r.credited /\ r.failed)
          => /\ "failure" \in r.msgs
             /\ r.msgs \cap {"success", "failure"} # {}

\* ---- C8 ----------------------------------------------------------------
\* C8: an event whose payload names a tariff the pricing table lacks ends
\* recorded as completed, without credit or provisioning call, and flagged
\* (error log entry or non-success result).
UnknownTariff(r) ==
    LET parts == Split(r.payload, "_") IN
    /\ Len(parts) >= 3
    /\ parts[1] = << r.entry >>
    /\ IsInt(parts[3])
    /\ TariffOf(parts[2]) = ""

C8_UnknownTariff ==
    \A h \in Handlers :
        LET r == handlers[h] IN
        (Ended(h) /\ r.entry \in {"stars", "crypto"} /\ UnknownTariff(r)
            /\ (r.entry = "crypto" => r.gate))
          => /\ r.key \in DOMAIN payments
             /\ payments[r.key].status = "completed"
             /\ ~r.credited
             /\ creditCount[r.key] = 0 /\ provCount[r.key] = 0
             /\ (r.errlog \/ r.result \in {"500", "raised"})

\* ---- C9 ----------------------------------------------------------------
\* C9: every balance is non-negative in every reachable state.
C9_NonNegative == \A u \in DOMAIN users : users[u] >= 0

\* ---- C10 ---------------------------------------------------------------
\* C10: a payment is never left completed with its credit neither applied
\* nor about to be applied by the handler that completed it.
CreditDue(k) ==
    \/ k \in ChargeIds
    \/ /\ k \in DOMAIN sent
       /\ LET parts == Split(sent[k].payload, "_") IN
          /\ Len(parts) >= 3 /\ parts[1] = <<"crypto">>
          /\ IsInt(parts[3]) /\ TariffOf(parts[2]) # ""

C10_AtomicCredit ==
    \A k \in DOMAIN payments :
        (payments[k].status = "completed" /\ CreditDue(k))
          => \/ creditCount[k] = 1
             \/ \E h \in Handlers :
                   /\ handlers[h].key = k /\ handlers[h].gate
                   /\ handlers[h].pc = "credit"

\* ---- C11 ---------------------------------------------------------------
\* C11: whenever no handler is in flight, each account's balance is its
\* initial balance (0) plus the credits of its completed payments, less the
\* debits and reversed compensations made (the program makes none);
\* nothing else changes a balance.
RECURSIVE SumAmounts(_, _)
SumAmounts(pays, ks) ==
    IF ks = {} THEN 0
    ELSE LET k == CHOOSE x \in ks : TRUE
         IN  pays[k].amount + SumAmounts(pays, ks \ {k})

CompletedCredits(pays, u) ==
    SumAmounts(pays, {k \in DOMAIN pays :
                         pays[k].status = "completed" /\ pays[k].user_id = u})

Quiescent == \A h \in Handlers : ~InFlight(h)

C11_Conservation ==
    Quiescent => \A u \in Users : Balance(users, u) = CompletedCredits(payments, u)

\* ---- C12 ---------------------------------------------------------------
\* C12: whenever no provisioning call is running, every subscription row's
\* ledger expiry equals the expiry the panel holds for the row's
\* provisioning name, after any sequence of creates and extends (lost
\* responses and time passing inside a call included).
C12_ExpiryConsistent ==
    CallIdle =>
        \A i \in DOMAIN subscriptions :
            /\ subscriptions[i].marzban_username \in DOMAIN remote
            /\ remote[subscriptions[i].marzban_username] = subscriptions[i].expires_at

\* ---- C13 ---------------------------------------------------------------
\* C13: the expiry a successful extend_user pushes is max(e, now) + d for
\* the remote expiry e it read: never less than e, never less than now + d,
\* and exactly now + d for a lapsed account (e < now).
C13_ExtendMonotone ==
    (op.fn = "extend" /\ op.pushed) =>
        LET e == op.current_expire
            t == op.at
            d == op.days * DAY_SECONDS
        IN  /\ remote[op.name] = op.new_expire
            /\ op.new_expire = (IF e >= t THEN e ELSE t) + d
            /\ op.new_expire >= e
            /\ op.new_expire >= t + d
            /\ (e < t => op.new_expire = t + d)

\* an extend has pushed the expiry of an account that had lapsed
C13_Witness ==
    /\ op.fn = "extend" /\ op.pushed /\ op.ret = "new_expire"
    /\ op.current_expire # 0 /\ op.current_expire < op.at

\* ---- C14 ---------------------------------------------------------------
\* C14: in every state each account has at most one subscription row that
\* is active and not expired.
C14_OneRenewable ==
    \A u \in Users : Cardinality(ActiveSubs(subscriptions, u, now)) <= 1

\* ---- C15 ---------------------------------------------------------------
\* C15: an invoice_paid webhook whose payload does not parse into (tariff
\* key, payer id) - fewer than three parts, a wrong prefix, a non-numeric
\* payer id - is answered with a non-success status or leaves an
\* error-level log entry, never a silent 200.
Unparseable(p) ==
    LET parts == Split(p, "_") IN
    \/ Len(parts) < 3
    \/ parts[1] # <<"crypto">>
    \/ ~IsInt(parts[3])

C15_UnparseableFlagged ==
    \A h \in Handlers :
        LET r == handlers[h] IN
        (Ended(h) /\ r.entry = "crypto" /\ r.gate /\ Unparseable(r.payload))
          => (r.result # "200" \/ r.errlog)

\* ---- C16 ---------------------------------------------------------------
\* C16: an invoice_paid webhook for an invoice id that is already completed
\* is answered 200 at once.
C16_State ==
    \A h \in Handlers :
        (Ended(h) /\ handlers[h].entry = "crypto" /\ ~handlers[h].gate)
          => handlers[h].result = "200"

C16_Step ==
    \A h \in Handlers :
        (Stepped(h) /\ ~InFlight(h) /\ handlers'[h].entry = "crypto"
            /\ handlers'[h].key \in DOMAIN payments
            /\ payments[handlers'[h].key].status = "completed")
          => handlers'[h].pc = "done" /\ handlers'[h].result = "200"

C16_DuplicateAcknowledged == []C16_State /\ [][C16_Step]_vars

\* a webhook for an invoice that an earlier webhook completed has been answered
C16_Witness ==
    \E h \in Handlers :
        /\ Ended(h) /\ handlers[h].entry = "crypto" /\ ~handlers[h].gate
        /\ handlers[h].key \in DOMAIN payments
        /\ payments[handlers[h].key].status = "completed"
        /\ gateWins[handlers[h].key] = 1
        /\ handlers[h].result = "200"

\* ---- C17 ---------------------------------------------------------------
\* C17: for every tariff and both instruments the quoted amount is rounded
\* up: amount x rate >= the tariff's price, for the Stars amount and for
\* the USDT amount.
C17_NoUnderPayment ==
    /\ calc.fn = "stars_amount"
          => calc.result * STAR_PRICE_RUB_X100 >= calc.amount * 100
    /\ calc.fn = "amount_usd"
          => calc.result * USDT_PRICE_RUB >= calc.amount * 100

\* ---- C18 ---------------------------------------------------------------
\* C18: the credit computed from a paid Stars amount is amount x 1.65
\* rounded to the nearest integer (at most one half away from it).
C18_CreditNearest ==
    calc.fn = "rub_amount" =>
        /\ 2 * (calc.result * 100 - calc.amount * STAR_PRICE_RUB_X100) <= 100
        /\ 2 * (calc.amount * STAR_PRICE_RUB_X100 - calc.result * 100) <= 100

\* ---- C19 ---------------------------------------------------------------
\* C19: a Stars payment event whose charge id is already in the ledger as
\* completed is a no-op: balances, payments and subscriptions stay as they
\* are, the handler ends there, and /webhook does not answer with an error.
C19_Step ==
    \A h \in Handlers :
        (Stepped(h) /\ ~InFlight(h) /\ handlers'[h].entry = "stars"
            /\ handlers'[h].key \in DOMAIN payments
            /\ payments[handlers'[h].key].status = "completed")
          => /\ users' = users /\ payments' = payments
             /\ subscriptions' = subscriptions /\ remote' = remote
             /\ handlers'[h].pc = "done"
             /\ ~handlers'[h].gate /\ ~handlers'[h].credited
             /\ WebhookAnswer(handlers'[h]) = "200"

C20_Step ==
    \A h \in Handlers :
        /\ (Stepped(h) /\ handlers[h].pc = "prepare"
               /\ handlers'[h].pc \in {"auth_req", "create_user"})
             => /\ (handlers'[h].pc = "auth_req") <=> (token = 0 \/ now >= token_expiry)
                /\ handlers'[h].pc = "create_user"
                      => /\ handlers'[h].tok = token /\ token # 0
                         /\ token' = token /\ token_expiry' = token_expiry
        /\ (Stepped(h) /\ handlers[h].pc = "auth_req"
               /\ handlers'[h].pc = "auth_set_token")
             => handlers'[h].tok # 0 /\ token' = token /\ token_expiry' = token_expiry
        /\ (Stepped(h) /\ handlers[h].pc = "auth_set_token"
               /\ handlers'[h].result # "aborted")
             => token' = handlers[h].tok /\ token' # 0
        /\ (Stepped(h) /\ handlers[h].pc = "auth_set_expiry"
               /\ handlers'[h].result # "aborted")
             => /\ token_expiry' = now + TOKEN_TTL
                /\ token' = token /\ token' # 0
                /\ handlers'[h].tok = token'

C20_AuthCache == [][C20_Step]_vars

\* a second purchase got the token from the cache that the first one filled
C20_Witness ==
    \E h \in Handlers :
        /\ handlers[h].pc = "create_user" /\ handlers[h].exp0 # 0 /\ ticks = 0
        /\ handlers[h].tok = token /\ token # 0
        /\ token_expiry = token + TOKEN_TTL

\* ---- C21 ---------------------------------------------------------------
\* C21: when the remote auth request fails (non-2xx or network error),
\* _auth returns failure with the cache cleared - token and expiry both
\* empty afterwards - and the caller makes no further remote call in that
\* operation.  (Stated for a call with no other call inside _auth.)
AuthPcs == {"auth_req", "auth_set_token", "auth_set_expiry"}

C21_Step ==
    \A h \in Handlers :
        (Stepped(h) /\ handlers[h].pc = "auth_req"
            /\ handlers'[h].pc # "auth_set_token"
            /\ handlers'[h].result # "aborted"
            /\ \A o \in Handlers \ {h} : handlers[o].pc \notin AuthPcs)
          => /\ handlers'[h].tok = 0
             /\ handlers'[h].pc \notin RemotePcs
             /\ token' = 0 /\ token_expiry' = 0

C21_AuthFailureClears == [][C21_Step]_vars

\* ---- C22 ---------------------------------------------------------------
\* C22: any two invocations of create_vpn_subscription generate distinct
\* provisioning names, also two for the same user within one clock second
\* (payments with different keys handled concurrently).
C22_DistinctNames ==
    \A h1, h2 \in Handlers :
        (h1 # h2 /\ handlers[h1].name # <<>> /\ handlers[h2].name # <<>>
            /\ handlers[h1].key # handlers[h2].key)
          => handlers[h1].name # handlers[h2].name

\* ---- C23 ---------------------------------------------------------------
\* C23: when the remote extend fails (auth failure, non-200 on the query or
\* the update, transport error) extend_vpn_subscription returns failure
\* and leaves the subscription row and the account balance as they were.
C23_State ==
    (op.fn = "extend" /\ op.failed)
      => /\ op.pc = "done" /\ op.ret = "None"
         /\ subscriptions[op.sub].expires_at = op.sub_expires_at
         /\ subscriptions[op.sub].status = "active"
         /\ subscriptions[op.sub].marzban_username = op.name

C23_Step ==
    (op' # op /\ op'.fn = "extend" /\ op'.failed)
      => subscriptions' = subscriptions /\ users' = users

C23_ExtendFailureFrame == []C23_State /\ [][C23_Step]_vars

\* an extend has failed after the panel applied the update
C23_Witness ==
    /\ op.fn = "extend" /\ op.failed /\ op.pushed /\ op.pc = "done"
    /\ remote[op.name] = op.new_expire

\* ---- C24 ---------------------------------------------------------------
\* C24: balance mutations on one account are linearizable: every
\* update_user_balance call, whatever runs beside it and also when the
\* account row does not exist yet, adds exactly its amount, so the balance
\* is the sum of all amounts applied and no update is lost.
\* the account and amount credited for a key, from the event delivered for it
CreditedUser(k) ==
    IF k \in ChargeIds THEN sent[k].user
    ELSE IntOf(Split(sent[k].payload, "_")[3])

CreditedAmount(k) ==
    IF k \in ChargeIds THEN RubOfStars(sent[k].total_amount \div 100)
    ELSE TARIFFS[TariffOf(Split(sent[k].payload, "_")[2])].price

RECURSIVE SumCredits(_, _)
SumCredits(ks, u) ==
    IF ks = {} THEN 0
    ELSE LET k == CHOOSE x \in ks : TRUE
         IN  (IF CreditedUser(k) = u THEN creditCount[k] * CreditedAmount(k) ELSE 0)
                + SumCredits(ks \ {k}, u)

C24_State ==
    adminOps = 0 =>
        \A u \in Users :
            Balance(users, u) = SumCredits({k \in AllKeys : creditCount[k] > 0}, u)

C24_Step ==
    /\ \A h \in Handlers :
          (Stepped(h) /\ handlers[h].pc = "credit" /\ handlers'[h].credited)
            => \A u \in Users :
                  Balance(users', u) = Balance(users, u)
                      + (IF u = handlers[h].user THEN handlers[h].rub ELSE 0)
    /\ adminOps' # adminOps
          => \E u \in Users, a \in AdminAmounts :
                \A v \in Users :
                    Balance(users', v) = Balance(users, v) + (IF v = u THEN a ELSE 0)
    /\ users' # users
          => \/ adminOps' # adminOps
             \/ \E h \in Handlers : Stepped(h) /\ handlers[h].pc = "credit"

C24_Linearizable == []C24_State /\ [][C24_Step]_vars

\* two handlers running side by side have both credited an account that
\* had no row before
C24_Witness ==
    \E h1, h2 \in Handlers :
        /\ h1 # h2 /\ handlers[h1].user = handlers[h2].user
        /\ handlers[h1].pc = "prepare" /\ handlers[h2].pc = "prepare"
        /\ adminOps = 0
        /\ users[handlers[h1].user] = handlers[h1].rub + handlers[h2].rub

\* ---- C25 ---------------------------------------------------------------
\* C25: every account create_user causes to exist on the panel ends with a
\* ledger row, and whenever create_user reports failure to its caller no
\* account is left on the panel, in particular when the create request
\* succeeded and the configuration request failed or gave an empty link.
C25_NoOrphan ==
    /\ (crashes = 0 /\ Quiescent)
          => \A n \in DOMAIN remote : UsernameTaken(subscriptions, n)
    /\ \A h \in Handlers :
          (Ended(h) /\ handlers[h].failed /\ crashes = 0)
            => \/ handlers[h].name \notin DOMAIN remote
               \/ \E o \in Handlers \ {h} :
                     handlers[o].name = handlers[h].name /\ ~handlers[o].failed

\* ---- C26 ---------------------------------------------------------------
\* C26: crypto_webhook_handler credits the account and the amount of the
\* pending payment row recorded for the invoice id, whatever user id and
\* tariff the payload of the request carries.
C26_CreditsRecordedRow ==
    \A h \in Handlers :
        (handlers[h].entry = "crypto" /\ handlers[h].credited)
          => /\ handlers[h].user = payments[handlers[h].key].user_id
             /\ handlers[h].rub = payments[handlers[h].key].amount

\* ---- C27 ---------------------------------------------------------------
\* C27: under any interleaving of concurrent _auth calls (token and
\* token_expiry are two separate assignments) a call served from the cache
\* gets a token whose own expiry has not passed, and once all calls have
\* finished the cache holds a token of a successful remote auth paired with
\* an expiry at most one hour after that auth.
\* Checked where it is sharpest: the last running call writes the expiry in
\* the very instant of its own remote auth (so the call itself took no
\* time), and the token then cached must not be more than TOKEN_TTL older
\* than the expiry.
C27_Step ==
    \A h \in Handlers :
        (/\ Stepped(h) /\ handlers[h].pc = "auth_set_expiry"
         /\ handlers'[h].pc = "create_user"
         /\ handlers[h].tok = now
         /\ \A o \in Handlers \ {h} : handlers[o].pc \notin AuthPcs)
          => /\ token' # 0
             /\ token_expiry' <= token' + TOKEN_TTL
             /\ handlers'[h].tok + TOKEN_TTL > now

C27_CachePaired == [][C27_Step]_vars

\* ---- C28 ---------------------------------------------------------------
\* C28: in every reachable state every subscription row has a non-empty
\* connection credential and a provisioning name for which a remote create
\* call returned success; a row is never written before, or without, a
\* successful remote create.
C28_State ==
    \A i \in DOMAIN subscriptions :
        /\ subscriptions[i].config_link # ""
        /\ subscriptions[i].marzban_username \in DOMAIN remote

C28_Step ==
    \A h \in Handlers :
        (Stepped(h) /\ subscriptions' # subscriptions)
          => /\ handlers[h].pc = "insert_sub"
             /\ handlers[h].link # "" /\ ~handlers[h].failed
             /\ handlers[h].name \in DOMAIN remote
             /\ subscriptions'[Len(subscriptions')].marzban_username = handlers[h].name
             /\ subscriptions'[Len(subscriptions')].config_link = handlers[h].link

C28_RowAfterCreate == []C28_State /\ [][C28_Step]_vars

\* one invocation wrote its row, another one's remote create failed and it
\* ended without writing any
C28_Witness ==
    \E h1, h2 \in Handlers :
        /\ h1 # h2 /\ handlers[h1].created
        /\ Ended(h2) /\ handlers[h2].failed /\ ~handlers[h2].created
        /\ handlers[h2].name # handlers[h1].name
        /\ Len(subscriptions) = 1

====
